---- MODULE Spec2Model ----
(***************************************************************************)
(* Model of market_basket_app.py: the cached loader load_data, the rule    *)
(* miner generate_rules (one action per statement, so that the order of    *)
(* its steps can be stated) and the script's top-level flow of one run.    *)
(*                                                                         *)
(* One run of the script is modelled, so each st.cache_data function is    *)
(* called with a key it has not seen and its body runs.                    *)
(*                                                                         *)
(* Representation.  A text cell is a sequence of one-character strings.    *)
(* A data frame is a record [isNone, rows] whose rows are a set of records *)
(* (row order and exact duplicate rows are not kept: dropna, the boolean   *)
(* filters, groupby and unique do not depend on them).  A float is an      *)
(* exact fraction <<numerator, denominator>> with a positive denominator;  *)
(* floating-point rounding is not modelled.  The Quantity column is read   *)
(* by nothing in the script and is left out.                               *)
(***************************************************************************)
EXTENDS Integers, Sequences, FiniteSets, TLC

VARIABLES
    caller,             \* "app": the script's run; "direct": generate_rules called on its own
    source,             \* data/OnlineRetail.csv: [exists, rows]
    df,                 \* the value load_data returned
    pc,                 \* the statement about to run
    country, min_sup, min_conf, min_lift,   \* the arguments of generate_rules
    subset,             \* line 39
    transactions,       \* line 42
    df_bool,            \* lines 45-47
    frequent_itemsets,  \* line 50
    rules,              \* lines 56-63, and the value returned
    error,              \* the exception that ended the run, or "none"
    shown,              \* what the page has rendered
    invoked             \* the statements that have run

vars == <<caller, source, df, pc, country, min_sup, min_conf, min_lift, subset,
          transactions, df_bool, frequent_itemsets, rules, error, shown, invoked>>

-----------------------------------------------------------------------------
(* Bounds of the model *)

MaxRows == 2
MaxInvoices == 3

-----------------------------------------------------------------------------
(* Fractions *)

Geq(a, b) == a[1] * b[2] >= b[1] * a[2]
Gt(a, b) == a[1] * b[2] > b[1] * a[2]
FEq(a, b) == a[1] * b[2] = b[1] * a[2]
FDiv(a, b) == <<a[1] * b[2], a[2] * b[1]>>

RECURSIVE SetToSeq(_)
SetToSeq(S) ==
    IF S = {} THEN <<>>
    ELSE LET x == CHOOSE y \in S : TRUE IN <<x>> \o SetToSeq(S \ {x})

-----------------------------------------------------------------------------
(* Data frames *)

NaN == <<"NaN">>
None == [isNone |-> TRUE, rows |-> {}]
DataFrame(rs) == [isNone |-> FALSE, rows |-> rs]
EmptyTable == <<>>

-----------------------------------------------------------------------------
(* load_data *)

NaStrings == {<<>>, <<"N", "A">>}
Whitespace == {" "}

read_csv(src) ==
    { [InvoiceNo |-> IF r.InvoiceNo \in NaStrings THEN NaN ELSE r.InvoiceNo,
       Description |-> IF r.Description \in NaStrings THEN NaN ELSE r.Description,
       Country |-> r.Country] : r \in src.rows }

dropna(rs) == {r \in rs : r.InvoiceNo # NaN /\ r.Description # NaN}

RECURSIVE lstrip(_)
lstrip(s) == IF s # <<>> /\ Head(s) \in Whitespace THEN lstrip(Tail(s)) ELSE s

RECURSIVE rstrip(_)
rstrip(s) ==
    IF s # <<>> /\ s[Len(s)] \in Whitespace THEN rstrip(SubSeq(s, 1, Len(s) - 1)) ELSE s

strip(s) == rstrip(lstrip(s))

str_strip(rs) == {[r EXCEPT !.Description = IF @ = NaN THEN NaN ELSE strip(@)] : r \in rs}

startswith(s, p) == Len(s) >= Len(p) /\ SubSeq(s, 1, Len(p)) = p

remove_cancellations(rs) == {r \in rs : ~startswith(r.InvoiceNo, <<"C">>)}

(* Faulty variant: an absent file gives an empty frame instead of None. *)
load_data_empty_frame(src) ==
    IF ~src.exists THEN DataFrame({})
    ELSE DataFrame(remove_cancellations(str_strip(dropna(read_csv(src)))))

load_data(src) ==
    IF ~src.exists THEN None
    ELSE DataFrame(remove_cancellations(str_strip(dropna(read_csv(src)))))

unique_countries(d) == {r.Country : r \in d.rows}

-----------------------------------------------------------------------------
(* generate_rules: the operations of its statements *)

Scope(d, c) == {r \in d.rows : r.Country = c}

Transactionize(sub) ==
    [i \in {r.InvoiceNo : r \in sub} |->
        {r.Description : r \in {x \in sub : x.InvoiceNo = i}}]

Encode(t) ==
    LET columns == UNION {t[i] : i \in DOMAIN t}
    IN [columns |-> columns,
        matrix |-> [i \in DOMAIN t |-> [c \in columns |-> c \in t[i]]]]

(* With no transaction the sparse transform hands scipy empty index arrays  *)
(* and no shape: csr_matrix raises "unable to infer matrix dimensions"; a  *)
(* build that accepts them gives a 0 x 0 frame.  Both outcomes are kept.   *)
EncodeOutcomes(t) == IF DOMAIN t = {} THEN {"ValueError", "ok"} ELSE {"ok"}

ItemsetCount(b, S) ==
    Cardinality({i \in DOMAIN b.matrix : \A c \in S : b.matrix[i][c]})

CeilDiv(x, d) == (x + d - 1) \div d

(* Faulty variant: min_support = 0 is let through. *)
FpgrowthRejects_negative_only(ms) == ms[1] < 0

(* fpgrowth raises ValueError when min_support <= 0; it then keeps the      *)
(* itemsets found in at least ceil(min_support * rows) rows.               *)
FpgrowthRejects(ms) == ms[1] <= 0

fpgrowth(b, ms) ==
    LET n == Cardinality(DOMAIN b.matrix)
        minsup == CeilDiv(ms[1] * n, ms[2])
    IN { [itemsets |-> S, support |-> <<ItemsetCount(b, S), n>>] :
            S \in {T \in SUBSET b.columns : T # {} /\ ItemsetCount(b, T) >= minsup} }

SupportOf(freq, S) == (CHOOSE f \in freq : f.itemsets = S).support

(* Faulty variant: confidence is taken relative to the consequent's support. *)
Rule_swapped(freq, k, a) ==
    LET sAC == k.support
        sC == SupportOf(freq, k.itemsets \ a)
        conf == FDiv(sAC, sC)
    IN [antecedents |-> a, consequents |-> k.itemsets \ a,
        support |-> sAC, confidence |-> conf, lift |-> FDiv(conf, sC)]

Rule(freq, k, a) ==
    LET sAC == k.support
        sA == SupportOf(freq, a)
        sC == SupportOf(freq, k.itemsets \ a)
        conf == FDiv(sAC, sA)
    IN [antecedents |-> a, consequents |-> k.itemsets \ a,
        support |-> sAC, confidence |-> conf, lift |-> FDiv(conf, sC)]

association_rules(freq, ml) ==
    SetToSeq({ r \in { Rule(freq, x[1], x[2]) :
                          x \in UNION { {<<k, a>> : a \in (SUBSET k.itemsets) \ {{}, k.itemsets}} :
                                          k \in freq } } :
                Geq(r.lift, ml) })

(* Faulty variants: the confidence filter is left out; it keeps the wrong side. *)
filter_confidence_dropped(rs, mc) == rs

filter_confidence_reversed(rs, mc) == SelectSeq(rs, LAMBDA r : Geq(mc, r.confidence))

filter_confidence(rs, mc) == SelectSeq(rs, LAMBDA r : Geq(r.confidence, mc))

RECURSIVE join(_)
join(items) ==
    IF items = <<>> THEN <<>>
    ELSE IF Len(items) = 1 THEN Head(items)
    ELSE Head(items) \o <<",", " ">> \o join(Tail(items))

to_str(rs) ==
    [i \in 1..Len(rs) |->
        [antecedents |-> rs[i].antecedents, consequents |-> rs[i].consequents,
         support |-> rs[i].support, confidence |-> rs[i].confidence, lift |-> rs[i].lift,
         antecedents_str |-> join(SetToSeq(rs[i].antecedents)),
         consequents_str |-> join(SetToSeq(rs[i].consequents))]]

SortsBefore(x, y) ==
    Gt(x.lift, y.lift) \/ (FEq(x.lift, y.lift) /\ Gt(x.confidence, y.confidence))

RECURSIVE Insert(_, _)
Insert(x, t) ==
    IF t = <<>> \/ ~SortsBefore(Head(t), x) THEN <<x>> \o t
    ELSE <<Head(t)>> \o Insert(x, Tail(t))

(* Faulty variant: the table is returned in the order it was derived. *)
sort_values_unsorted(rs) == rs

RECURSIVE sort_values(_)
sort_values(rs) == IF rs = <<>> THEN <<>> ELSE Insert(Head(rs), sort_values(Tail(rs)))

-----------------------------------------------------------------------------
(* generate_rules: one action per statement *)

EncoderError == "ValueError: unable to infer matrix dimensions"
MinSupportError == "ValueError: min_support must be a positive number"
FranceError == "ValueError: 'France' is not in list"

Return(table) ==
    /\ rules' = table
    /\ pc' = IF caller = "app" THEN "dashboard" ELSE "returned"

Raise(exc) ==
    /\ error' = exc
    /\ pc' = "raised"

Call ==
    /\ pc = "call"
    /\ pc' = "scope"
    /\ invoked' = invoked \cup {"generate_rules"}
    /\ UNCHANGED <<caller, source, df, country, min_sup, min_conf, min_lift, subset,
                   transactions, df_bool, frequent_itemsets, rules, error, shown>>

ScopeStep ==
    /\ pc = "scope"
    /\ subset' = Scope(df, country)
    /\ pc' = "groupby"
    /\ invoked' = invoked \cup {"scope"}
    /\ UNCHANGED <<caller, source, df, country, min_sup, min_conf, min_lift,
                   transactions, df_bool, frequent_itemsets, rules, error, shown>>

GroupStep ==
    /\ pc = "groupby"
    /\ transactions' = Transactionize(subset)
    /\ pc' = "encode"
    /\ invoked' = invoked \cup {"groupby"}
    /\ UNCHANGED <<caller, source, df, country, min_sup, min_conf, min_lift, subset,
                   df_bool, frequent_itemsets, rules, error, shown>>

EncodeStep ==
    /\ pc = "encode"
    /\ invoked' = invoked \cup {"encode"}
    /\ \E outcome \in EncodeOutcomes(transactions) :
          IF outcome = "ok"
          THEN /\ df_bool' = Encode(transactions)
               /\ pc' = "fpgrowth"
               /\ UNCHANGED error
          ELSE /\ Raise(EncoderError)
               /\ UNCHANGED df_bool
    /\ UNCHANGED <<caller, source, df, country, min_sup, min_conf, min_lift, subset,
                   transactions, frequent_itemsets, rules, shown>>

MineStep ==
    /\ pc = "fpgrowth"
    /\ invoked' = invoked \cup {"fpgrowth"}
    /\ IF FpgrowthRejects(min_sup)
       THEN /\ Raise(MinSupportError)
            /\ UNCHANGED frequent_itemsets
       ELSE /\ frequent_itemsets' = fpgrowth(df_bool, min_sup)
            /\ pc' = "empty_check"
            /\ UNCHANGED error
    /\ UNCHANGED <<caller, source, df, country, min_sup, min_conf, min_lift, subset,
                   transactions, df_bool, rules, shown>>

(* Faulty variant: no short-circuit on an empty frequent-itemset frame. *)
EmptyCheck_always_derives ==
    /\ pc = "empty_check"
    /\ invoked' = invoked \cup {"empty_check"}
    /\ pc' = "association_rules"
    /\ UNCHANGED <<caller, source, df, country, min_sup, min_conf, min_lift, subset,
                   transactions, df_bool, frequent_itemsets, rules, error, shown>>

EmptyCheck ==
    /\ pc = "empty_check"
    /\ invoked' = invoked \cup {"empty_check"}
    /\ IF frequent_itemsets = {}
       THEN Return(EmptyTable)
       ELSE /\ pc' = "association_rules"
            /\ UNCHANGED rules
    /\ UNCHANGED <<caller, source, df, country, min_sup, min_conf, min_lift, subset,
                   transactions, df_bool, frequent_itemsets, error, shown>>

DeriveStep ==
    /\ pc = "association_rules"
    /\ rules' = association_rules(frequent_itemsets, min_lift)
    /\ pc' = "filter_confidence"
    /\ invoked' = invoked \cup {"association_rules"}
    /\ UNCHANGED <<caller, source, df, country, min_sup, min_conf, min_lift, subset,
                   transactions, df_bool, frequent_itemsets, error, shown>>

FilterStep ==
    /\ pc = "filter_confidence"
    /\ rules' = filter_confidence(rules, min_conf)
    /\ pc' = "to_str"
    /\ invoked' = invoked \cup {"filter_confidence"}
    /\ UNCHANGED <<caller, source, df, country, min_sup, min_conf, min_lift, subset,
                   transactions, df_bool, frequent_itemsets, error, shown>>

FormatStep ==
    /\ pc = "to_str"
    /\ rules' = to_str(rules)
    /\ pc' = "sort_values"
    /\ invoked' = invoked \cup {"to_str"}
    /\ UNCHANGED <<caller, source, df, country, min_sup, min_conf, min_lift, subset,
                   transactions, df_bool, frequent_itemsets, error, shown>>

SortStep ==
    /\ pc = "sort_values"
    /\ Return(sort_values(rules))
    /\ invoked' = invoked \cup {"sort_values"}
    /\ UNCHANGED <<caller, source, df, country, min_sup, min_conf, min_lift, subset,
                   transactions, df_bool, frequent_itemsets, error, shown>>

GenerateRulesStep ==
    \/ Call
    \/ ScopeStep
    \/ GroupStep
    \/ EncodeStep
    \/ MineStep
    \/ EmptyCheck
    \/ DeriveStep
    \/ FilterStep
    \/ FormatStep
    \/ SortStep

(* generate_rules as one function: the composition of its statements, for a   *)
(* call in which no statement raises.                                         *)
generate_rules(d, c, ms, mc, ml) ==
    LET freq == fpgrowth(Encode(Transactionize(Scope(d, c))), ms)
    IN IF freq = {} THEN EmptyTable
       ELSE sort_values(to_str(filter_confidence(association_rules(freq, ml), mc)))

-----------------------------------------------------------------------------
(* The script's run *)

SliderPop == {<<1, 100>>, <<20, 100>>}
SliderCert == {<<10, 100>>, <<100, 100>>}
SliderStr == {<<100, 100>>, <<1000, 100>>}

LoadData ==
    /\ pc = "load_data"
    /\ df' = load_data(source)
    /\ pc' = IF df'.isNone THEN "not_found" ELSE "controls"
    /\ invoked' = invoked \cup {"load_data"}
    /\ UNCHANGED <<caller, source, country, min_sup, min_conf, min_lift, subset,
                   transactions, df_bool, frequent_itemsets, rules, error, shown>>

NotFound ==
    /\ pc = "not_found"
    /\ shown' = shown \cup {"data_not_found"}
    /\ pc' = "done"
    /\ UNCHANGED <<caller, source, df, country, min_sup, min_conf, min_lift, subset,
                   transactions, df_bool, frequent_itemsets, rules, error, invoked>>

Controls ==
    /\ pc = "controls"
    /\ invoked' = invoked \cup {"controls"}
    /\ IF "France" \notin unique_countries(df)
       THEN /\ Raise(FranceError)
            /\ UNCHANGED <<country, min_sup, min_conf, min_lift>>
       ELSE /\ \E c \in unique_countries(df), pop \in SliderPop,
                  cert \in SliderCert, str \in SliderStr :
                    /\ country' = c
                    /\ min_sup' = pop
                    /\ min_conf' = cert
                    /\ min_lift' = str
            /\ pc' = "call"
            /\ UNCHANGED error
    /\ UNCHANGED <<caller, source, df, subset, transactions, df_bool,
                   frequent_itemsets, rules, shown>>

Dashboard ==
    /\ pc = "dashboard"
    /\ shown' = shown \cup {"kpi", "guide"}
    /\ pc' = "chart"
    /\ UNCHANGED <<caller, source, df, country, min_sup, min_conf, min_lift, subset,
                   transactions, df_bool, frequent_itemsets, rules, error, invoked>>

Chart ==
    /\ pc = "chart"
    /\ IF rules # EmptyTable
       THEN /\ shown' = shown \cup {"chart"}
            /\ invoked' = invoked \cup {"chart"}
       ELSE /\ shown' = shown \cup {"no_patterns"}
            /\ UNCHANGED invoked
    /\ pc' = "recommender"
    /\ UNCHANGED <<caller, source, df, country, min_sup, min_conf, min_lift, subset,
                   transactions, df_bool, frequent_itemsets, rules, error>>

Recommender ==
    /\ pc = "recommender"
    /\ IF rules # EmptyTable
       THEN /\ \E selected_prod \in {rules[i].antecedents_str : i \in 1..Len(rules)} :
                 LET recs == SelectSeq(rules, LAMBDA r : r.antecedents_str = selected_prod)
                 IN shown' = shown \cup
                        (IF recs # <<>> THEN {"upsell"} ELSE {"no_strong_rules"})
            /\ invoked' = invoked \cup {"recommender"}
       ELSE UNCHANGED <<shown, invoked>>
    /\ pc' = "export"
    /\ UNCHANGED <<caller, source, df, country, min_sup, min_conf, min_lift, subset,
                   transactions, df_bool, frequent_itemsets, rules, error>>

Export ==
    /\ pc = "export"
    /\ IF rules # EmptyTable
       THEN /\ shown' = shown \cup {"download"}
            /\ invoked' = invoked \cup {"export"}
       ELSE UNCHANGED <<shown, invoked>>
    /\ pc' = "done"
    /\ UNCHANGED <<caller, source, df, country, min_sup, min_conf, min_lift, subset,
                   transactions, df_bool, frequent_itemsets, rules, error>>

-----------------------------------------------------------------------------
(* Inputs *)

RECURSIVE SubsetsUpTo(_, _)
SubsetsUpTo(S, k) ==
    IF k = 0 THEN {{}}
    ELSE LET P == SubsetsUpTo(S, k - 1) IN P \cup {p \cup {x} : p \in P, x \in S}

InvoiceCells == {<<>>, <<"1">>, <<"2">>, <<"C", "1">>}
DescriptionCells == {<<>>, <<" ">>, <<"A">>, <<" ", "B", " ">>}
CountryCells == {"France", "UK"}

RawRows == [InvoiceNo : InvoiceCells, Description : DescriptionCells, Country : CountryCells]

Sources ==
    {[exists |-> FALSE, rows |-> {}]}
        \cup {[exists |-> TRUE, rows |-> R] : R \in SubsetsUpTo(RawRows, MaxRows)}

Items == {<<"A">>, <<"B">>, <<"C">>}

BasketOptions ==
    SetToSeq([Country : {"France"}, items : (SUBSET Items) \ {{}}]
                \cup [Country : {"UK"}, items : {{<<"A">>}, {<<"A">>, <<"B">>}}])

BasketRows(f) ==
    UNION { { [InvoiceNo |-> <<ToString(i)>>, Description |-> d,
               Country |-> BasketOptions[f[i]].Country] : d \in BasketOptions[f[i]].items } :
            i \in DOMAIN f }

RecordSets ==
    { BasketRows(f) :
        f \in UNION { {g \in [1..k -> 1..Len(BasketOptions)] :
                          \A i \in 1..k : \A j \in 1..k : i <= j => g[i] <= g[j]} :
                      k \in 0..MaxInvoices } }

MinSupValues == {<<0, 100>>, <<30, 100>>, <<50, 100>>, <<100, 100>>}
MinConfValues == {<<50, 100>>, <<100, 100>>}
MinLiftValues == {<<-100, 100>>, <<100, 100>>, <<150, 100>>}

-----------------------------------------------------------------------------
(* Specifications *)

Locals ==
    /\ subset = {}
    /\ transactions = <<>>
    /\ df_bool = Encode(<<>>)
    /\ frequent_itemsets = {}
    /\ rules = EmptyTable
    /\ error = "none"
    /\ shown = {}
    /\ invoked = {}

Init ==
    /\ caller = "app"
    /\ source \in Sources
    /\ df = None
    /\ pc = "load_data"
    /\ country = ""
    /\ min_sup = <<0, 1>>
    /\ min_conf = <<0, 1>>
    /\ min_lift = <<0, 1>>
    /\ Locals

Next ==
    \/ LoadData
    \/ NotFound
    \/ Controls
    \/ GenerateRulesStep
    \/ Dashboard
    \/ Chart
    \/ Recommender
    \/ Export

Spec == Init /\ [][Next]_vars

InitMiner ==
    /\ caller = "direct"
    /\ \E rs \in RecordSets :
          /\ source = [exists |-> TRUE, rows |-> rs]
          /\ df = DataFrame(rs)
    /\ pc = "call"
    /\ country \in CountryCells
    /\ min_sup \in MinSupValues
    /\ min_conf \in MinConfValues
    /\ min_lift \in MinLiftValues
    /\ Locals

NextMiner == GenerateRulesStep

SpecMiner == InitMiner /\ [][NextMiner]_vars

-----------------------------------------------------------------------------
(* The measures of the glossary, taken from the record set itself *)

ScopedRows == {r \in df.rows : r.Country = country}
ScopedInvoices == {r.InvoiceNo : r \in ScopedRows}
ScopedItems == {r.Description : r \in ScopedRows}
Containing(S) ==
    {i \in ScopedInvoices :
        \A it \in S : \E r \in ScopedRows : r.InvoiceNo = i /\ r.Description = it}
Support(S) == <<Cardinality(Containing(S)), Cardinality(ScopedInvoices)>>
Confidence(A, C) == FDiv(Support(A \cup C), Support(A))
Lift(A, C) == FDiv(Confidence(A, C), Support(C))

Zero == <<0, 1>>
One == <<1, 1>>
RecognizedThresholds ==
    /\ Gt(min_sup, Zero) /\ Gt(One, min_sup)
    /\ Gt(min_conf, Zero) /\ Gt(One, min_conf)
    /\ Geq(min_lift, Zero)
KnownCountry == country \in unique_countries(df)
Returned == pc = "returned"
Ended == pc \in {"returned", "raised"}
Loaded == pc # "load_data"
DerivationSteps == {"association_rules", "filter_confidence", "to_str", "sort_values"}

-----------------------------------------------------------------------------
(* C1: every rule of the returned table has confidence >= min_conf and     *)
(* lift >= min_lift, both as the table reports them and as measured on the *)
(* country's invoices, and the support of antecedent union consequent,     *)
(* measured as the fraction of the country's invoices holding it, is       *)
(* >= min_sup.                                                             *)
C1_ThresholdsMet ==
    Returned =>
        \A i \in 1..Len(rules) :
            LET r == rules[i] IN
            /\ Geq(r.confidence, min_conf)
            /\ Geq(r.lift, min_lift)
            /\ Geq(Support(r.antecedents \cup r.consequents), min_sup)
            /\ FEq(r.support, Support(r.antecedents \cup r.consequents))
            /\ FEq(r.confidence, Confidence(r.antecedents, r.consequents))
            /\ FEq(r.lift, Lift(r.antecedents, r.consequents))

C1_Witness ==
    /\ Returned /\ KnownCountry /\ RecognizedThresholds
    /\ Len(rules) >= 1
    /\ \E A \in SUBSET ScopedItems, B \in SUBSET ScopedItems :
          /\ A # {} /\ B # {} /\ A \cap B = {}
          /\ Geq(Support(A \cup B), min_sup)
          /\ ~Geq(Confidence(A, B), min_conf)

(* C2: the returned table is sorted by lift descending, ties broken by     *)
(* confidence descending: each row and the next have r1.lift > r2.lift, or *)
(* equal lift and r1.confidence >= r2.confidence.                          *)
C2_Sorted ==
    Returned =>
        \A i \in 1..(Len(rules) - 1) :
            \/ Gt(rules[i].lift, rules[i + 1].lift)
            \/ /\ FEq(rules[i].lift, rules[i + 1].lift)
               /\ Geq(rules[i].confidence, rules[i + 1].confidence)

C2_Witness ==
    /\ Returned
    /\ \E i \in 1..(Len(rules) - 1) : Gt(rules[i].lift, rules[i + 1].lift)
    /\ \E i \in 1..(Len(rules) - 1) :
          /\ FEq(rules[i].lift, rules[i + 1].lift)
          /\ Gt(rules[i].confidence, rules[i + 1].confidence)

(* C3: Scenario A.  The country's invoices are {A,B}, {A,B}, {A,C} and the *)
(* thresholds are 0.5, 0.5, 1.0.                                           *)
ScenarioA ==
    /\ Cardinality(ScopedInvoices) = 3
    /\ Cardinality(Containing({<<"A">>, <<"B">>})) = 2
    /\ Cardinality(Containing({<<"A">>, <<"C">>})) = 1
    /\ Containing({<<"B">>, <<"C">>}) = {}
    /\ ScopedItems = {<<"A">>, <<"B">>, <<"C">>}
    /\ FEq(min_sup, <<1, 2>>) /\ FEq(min_conf, <<1, 2>>) /\ FEq(min_lift, One)

HasRule(A, C, sup, conf, lift) ==
    \E i \in 1..Len(rules) :
        /\ rules[i].antecedents = A /\ rules[i].consequents = C
        /\ FEq(rules[i].support, sup)
        /\ FEq(rules[i].confidence, conf)
        /\ FEq(rules[i].lift, lift)

NoRule(A, C) ==
    \A i \in 1..Len(rules) : ~(rules[i].antecedents = A /\ rules[i].consequents = C)

(* C3 as stated: the output holds {A} -> {B} with support 2/3, confidence  *)
(* 1.0 and lift 1.5, and no rule {A} -> {C}.                               *)
C3_AsStated ==
    (ScenarioA /\ Returned) =>
        /\ HasRule({<<"A">>}, {<<"B">>}, <<2, 3>>, <<1, 1>>, <<3, 2>>)
        /\ NoRule({<<"A">>}, {<<"C">>})

(* C3 amended: the output holds {A} -> {B} with support 2/3, confidence    *)
(* 2/3 and lift 1.0 (it is {B} -> {A} that has confidence 1.0, with lift   *)
(* 1.0 as well), and no rule {A} -> {C}.                                   *)
C3_ScenarioA ==
    (ScenarioA /\ Ended) =>
        /\ Returned
        /\ HasRule({<<"A">>}, {<<"B">>}, <<2, 3>>, <<2, 3>>, <<1, 1>>)
        /\ HasRule({<<"B">>}, {<<"A">>}, <<2, 3>>, <<1, 1>>, <<1, 1>>)
        /\ NoRule({<<"A">>}, {<<"C">>})
        /\ Len(rules) = 2

C3_Witness == ScenarioA /\ Returned /\ Len(rules) = 2

(* C4: a country that does not occur in the record set is rejected with an *)
(* "unknown region" validation error before the records are scoped, and no *)
(* table is returned instead.                                              *)
C4_UnknownCountryRejected ==
    ~KnownCountry =>
        /\ "scope" \notin invoked
        /\ Ended => (pc = "raised" /\ error = "unknown region")

(* C4, what the code does for such a country instead: it scopes to         *)
(* an empty subset, groups and encodes it, and then either fails with a    *)
(* ValueError of the encoding or mining library or returns an empty table. *)
C4_Observed ==
    ~KnownCountry =>
        /\ error \in {"none", EncoderError, MinSupportError}
        /\ "scope" \in invoked => subset = {}
        /\ "groupby" \in invoked => DOMAIN transactions = {}
        /\ pc = "raised" => {"scope", "groupby", "encode"} \subseteq invoked
        /\ Returned => (rules = EmptyTable /\ DerivationSteps \cap invoked = {})
        /\ frequent_itemsets = {}

RaisedOne(s, c, l) ==
    \/ Gt(s, min_sup) /\ c = min_conf /\ l = min_lift
    \/ s = min_sup /\ Gt(c, min_conf) /\ l = min_lift
    \/ s = min_sup /\ c = min_conf /\ Gt(l, min_lift)

C8_Monotone ==
    Returned =>
        \A s \in MinSupValues, c \in MinConfValues, l \in MinLiftValues :
            RaisedOne(s, c, l) =>
                Len(generate_rules(df, country, s, c, l)) <= Len(rules)

C8_Witness ==
    /\ Returned /\ Len(rules) >= 1
    /\ \E s \in MinSupValues :
          /\ Gt(s, min_sup)
          /\ fpgrowth(df_bool, s) = {}
          /\ generate_rules(df, country, s, min_conf, min_lift) = EmptyTable
    /\ \E c \in MinConfValues :
          /\ Gt(c, min_conf)
          /\ Len(generate_rules(df, country, min_sup, c, min_lift)) < Len(rules)
    /\ \E l \in MinLiftValues :
          /\ Gt(l, min_lift)
          /\ Len(generate_rules(df, country, min_sup, min_conf, l)) < Len(rules)

(* C9: when no itemset of the scoped transactions has support >= min_sup,  *)
(* the frequent-itemset frame is empty and generate_rules returns the      *)
(* empty table without running rule derivation, the confidence filter, the *)
(* string formatting or the sort, and without an error; rule derivation is *)
(* reached only with a non-empty frequent-itemset frame.  (For a country   *)
(* with no invoice at all the encoder may raise before mining: C4.)        *)
NoItemsetQualifies ==
    \A S \in (SUBSET ScopedItems) \ {{}} : ~Geq(Support(S), min_sup)

-----------------------------------------------------------------------------
(* C6: when the source is absent load_data returns None without raising,   *)
(* the run shows the data-not-found message and never invokes              *)
(* generate_rules, the chart, the recommender or the export; and the       *)
(* no-patterns message is shown only in a run whose source was loaded.     *)
C6_SourceAbsent ==
    /\ (Loaded /\ ~source.exists) => (df = None /\ error = "none")
    /\ (Loaded /\ df.isNone) =>
          /\ pc \in {"not_found", "done"}
          /\ invoked = {"load_data"}
          /\ shown \subseteq {"data_not_found"}
          /\ pc = "done" => shown = {"data_not_found"}
    /\ "no_patterns" \in shown => (source.exists /\ ~df.isNone)
    /\ "data_not_found" \in shown => (~source.exists /\ df.isNone)

C6_Witness ==
    /\ pc = "done" /\ ~source.exists /\ df = None
    /\ shown = {"data_not_found"} /\ "generate_rules" \notin invoked

(* C7: every record of the cleaned record set has a non-empty invoiceId    *)
(* and a non-empty, trimmed itemDescription.                               *)
C7_NonEmptyFields ==
    (Loaded /\ ~df.isNone) =>
        \A r \in df.rows :
            /\ r.InvoiceNo \notin {<<>>, NaN}
            /\ r.Description \notin {<<>>, NaN}

(* C10: in every run in which load_data returns a record set the run       *)
(* reaches the generate_rules call with a country of that record set and   *)
(* never aborts while building the controls.                               *)
C10_ReachesGenerateRules ==
    (Loaded /\ ~df.isNone) =>
        /\ pc # "raised" /\ error = "none"
        /\ "generate_rules" \in invoked => KnownCountry

====
